---- MODULE Spec2Model ----
(***************************************************************************)
(* mtpng: the PNG chunk stream writer (src/writer.rs) and the command line *)
(* driver (src/bin/mtpng.rs).                                              *)
(*                                                                         *)
(* Spec    : one Writer<W> over a byte sink, driven by an arbitrary caller.*)
(* CliSpec : one run of the mtpng binary, from main to process exit.       *)
(*                                                                         *)
(* Numbers wider than 31 bits (u32 values, usize lengths) are pairs        *)
(* <<hi, lo>> standing for hi * 65536 + lo with lo in 0..65535. Bytes are  *)
(* naturals in 0..255 and byte strings are sequences of bytes.             *)
(***************************************************************************)
EXTENDS Integers, Sequences, FiniteSets, TLC

VARIABLES
    output,     \* Writer.output: the bytes the sink W holds
    wstate,     \* "open" while the Writer exists, "closed" once consumed
    returned,   \* what Writer::close gave back
    log,        \* history: one record per Writer method call, in call order
    pc,         \* CLI: position of the process in main / doit / write_png
    args,       \* CLI: the ArgMatches: per option, <<>> (None) or <<value>>
    env,        \* CLI: locals of doit: threads, reps, palette, transparency
    options,    \* CLI: the Options of the current write_png, <<>> outside
    rep,        \* CLI: completed iterations of the loop of doit
    calls,      \* CLI: encoder calls of the current write_png, in order
    result,     \* CLI: what doit returned, <<>> while it runs
    stderr,     \* CLI: the lines written to stderr
    exit        \* CLI: exit status of the process, <<>> while it runs

writerVars == <<output, wstate, returned, log>>
cliVars == <<pc, args, env, options, rep, calls, result, stderr, exit>>
vars == <<output, wstate, returned, log,
          pc, args, env, options, rep, calls, result, stderr, exit>>

None == "None"

----------------------------------------------------------------------------
(* Bounds of the model.                                                    *)

\* Writer method calls before close.
MaxOps == 2
\* Options given on one command line.
MaxPresent == 2
\* Longest value of a numeric option, in characters.
MaxStrLen == 2

----------------------------------------------------------------------------
(* Bytes and wide numbers.                                                 *)

Byte == 0..255

RECURSIVE Xor(_, _)
\* Bitwise exclusive or of two naturals (the ^ operator).
Xor(a, b) ==
    IF a = 0 THEN b
    ELSE IF b = 0 THEN a
    ELSE ((a + b) % 2) + 2 * Xor(a \div 2, b \div 2)

\* A usize or u32 value as <<hi, lo>>.
Wide(n) == <<n \div 65536, n % 65536>>

\* u32::max_value() as usize
U32Max == <<65535, 65535>>

\* a > b on wide numbers
WideGt(a, b) == a[1] > b[1] \/ (a[1] = b[1] /\ a[2] > b[2])

RECURSIVE Flatten(_)
\* The concatenation of a sequence of byte strings.
Flatten(ss) == IF ss = <<>> THEN <<>> ELSE Head(ss) \o Flatten(Tail(ss))

IsPrefix(s, t) == Len(s) <= Len(t) /\ SubSeq(t, 1, Len(s)) = s

----------------------------------------------------------------------------
(* crc::crc32 as writer.rs uses it: Digest::new(IEEE), write, sum32.       *)
(* A CRC register is <<b3, b2, b1, b0>>, most significant byte first.      *)

\* crc32::IEEE = 0xEDB88320
IEEE == <<237, 184, 131, 32>>

Xor4(x, y) == <<Xor(x[1], y[1]), Xor(x[2], y[2]), Xor(x[3], y[3]), Xor(x[4], y[4])>>

\* value >> 1
Shr1(x) ==
    << x[1] \div 2,
       (x[1] % 2) * 128 + x[2] \div 2,
       (x[2] % 2) * 128 + x[3] \div 2,
       (x[3] % 2) * 128 + x[4] \div 2 >>

\* value >> 8
Shr8(x) == <<0, x[1], x[2], x[3]>>

\* !value
Not4(x) == <<255 - x[1], 255 - x[2], 255 - x[3], 255 - x[4]>>

RECURSIVE TableStep(_, _, _)
TableStep(poly, value, k) ==
    IF k = 0 THEN value
    ELSE TableStep(poly,
                   IF value[4] % 2 = 1 THEN Xor4(Shr1(value), poly) ELSE Shr1(value),
                   k - 1)

\* crc32::make_table(poly)
make_table(poly) == [i \in Byte |-> TableStep(poly, <<0, 0, 0, i>>, 8)]

IEEE_TABLE == make_table(IEEE)

RECURSIVE UpdateLoop(_, _, _)
\* The loop of crc32::update: table[((value as u8) ^ byte) as usize] ^ (value >> 8)
UpdateLoop(value, table, bytes) ==
    IF bytes = <<>> THEN value
    ELSE LET index == Xor(value[4], Head(bytes))
         IN  IF index \in DOMAIN table
             THEN UpdateLoop(Xor4(table[index], Shr8(value)), table, Tail(bytes))
             ELSE value

\* crc32::update(value, table, bytes)
update(value, table, bytes) == Not4(UpdateLoop(Not4(value), table, bytes))

\* crc32::Digest::new(crc32::IEEE): the running value starts at 0
Digest_new == <<0, 0, 0, 0>>

\* Hasher32::write
Digest_write(digest, bytes) == update(digest, IEEE_TABLE, bytes)

\* Hasher32::sum32: the register as a u32
Digest_sum32(digest) == <<digest[1] * 256 + digest[2], digest[3] * 256 + digest[4]>>

----------------------------------------------------------------------------
(* writer.rs                                                               *)

\* The bytes write_be32 hands to write_all.
be32_bytes(val) == <<val[1] \div 256, val[1] % 256, val[2] \div 256, val[2] % 256>>

\* The byte write_byte hands to write_all.
byte_bytes(val) == <<val % 256>>

\* The array of write_signature.
SignatureBytes == <<137, 80, 78, 71, 13, 10, 26, 10>>

\* One write_all on the sink: every byte is appended.
write_all(w, bytes) == w \o bytes

RECURSIVE WriteSeq(_, _, _)
\* A run of write_all calls chained by `?`. fault = 0: every call succeeds;
\* fault = k > 0: the k-th call returns an I/O error (the sink takes none of
\* its bytes) and the calls after it are not made.
WriteSeq(w, pieces, fault) ==
    IF pieces = <<>> THEN [out |-> w, res |-> "Ok"]
    ELSE IF fault = 1 THEN [out |-> w, res |-> "IoError"]
    ELSE WriteSeq(write_all(w, Head(pieces)), Tail(pieces),
                  IF fault = 0 THEN 0 ELSE fault - 1)

\* tag.len() != 4
BadTag(tag) == Len(tag) # 4

\* Variant: a slice of exactly u32::max_value() bytes is refused too.
DataTooLong_Inclusive(len) == ~WideGt(U32Max, len)

\* data.len() > u32::max_value() as usize
DataTooLong(len) == WideGt(len, U32Max)

\* Variant: the digest is fed the data alone.
ChunkChecksum_DataOnly(tag, bytes) == Digest_sum32(Digest_write(Digest_new, bytes))

\* The checksum of write_chunk: the digest is fed the tag, then the data.
ChunkChecksum(tag, bytes) ==
    Digest_sum32(Digest_write(Digest_write(Digest_new, tag), bytes))

\* Variant: the tag is written before the length.
ChunkPieces_TagFirst(tag, data) ==
    << tag, be32_bytes(data.len), data.bytes,
       be32_bytes(Digest_sum32(Digest_write(Digest_write(Digest_new, tag), data.bytes))) >>

\* The four writes of write_chunk, in order. The length is data.len() as u32.
ChunkPieces(tag, data) ==
    << be32_bytes(data.len), tag, data.bytes,
       be32_bytes(ChunkChecksum(tag, data.bytes)) >>

\* Writer::write_chunk on sink w.
write_chunk(w, tag, data, fault) ==
    IF BadTag(tag) THEN [out |-> w, res |-> "InvalidInput"]
    ELSE IF DataTooLong(data.len) THEN [out |-> w, res |-> "InvalidInput"]
    ELSE WriteSeq(w, ChunkPieces(tag, data), fault)

\* Variant: the signature is written only to a sink that is still empty.
write_signature_once(w, fault) ==
    IF w = <<>> THEN WriteSeq(w, <<SignatureBytes>>, fault) ELSE [out |-> w, res |-> "Ok"]

\* Writer::write_signature on sink w.
write_signature(w, fault) == WriteSeq(w, <<SignatureBytes>>, fault)

\* b"IHDR", b"IEND"
IHDR == <<73, 72, 68, 82>>
IEND == <<73, 69, 78, 68>>

\* A data slice the model can hold in full.
Slice(bytes) == [len |-> Wide(Len(bytes)), bytes |-> bytes]

\* The Vec<u8> write_header builds before it calls write_chunk.
HeaderData(header) ==
    be32_bytes(header.width) \o be32_bytes(header.height)
    \o byte_bytes(header.depth)
    \o byte_bytes(header.compression_method)
    \o byte_bytes(header.filter_method)
    \o byte_bytes(header.interlace_method)

\* Writer::write_header on sink w.
write_header(w, header, fault) == write_chunk(w, IHDR, Slice(HeaderData(header)), fault)

\* Variant: the end chunk carries the tag of a data chunk.
write_end_as_data(w, fault) == write_chunk(w, <<73, 68, 65, 84>>, Slice(<<>>), fault)

\* Writer::write_end on sink w.
write_end(w, fault) == write_chunk(w, IEND, Slice(<<>>), fault)

\* Writer::flush on sink w: forwarded to the sink, which may fail.
flush(w, fault) == [out |-> w, res |-> IF fault = 0 THEN "Ok" ELSE "IoError"]

\* Variant: close hands back a new, empty sink.
close_fresh(w, fault) == [ok |-> fault = 0, sink |-> <<>>]

\* Writer::close: flush, then hand back the sink.
close(w, fault) ==
    LET f == flush(w, fault)
    IN  IF f.res = "Ok" THEN [ok |-> TRUE, sink |-> f.out]
        ELSE [ok |-> FALSE, sink |-> <<>>]

----------------------------------------------------------------------------
(* The callers of the Writer: the values a call may be given.              *)

IDAT == <<73, 68, 65, 84>>

\* one_pixel of tests::crc_works
OnePixel == <<8, 153, 99, 96, 96, 96, 0, 0, 0, 4, 0, 1>>

\* b"01234567890123456789" of tests::full_chunk_works
Digits20 ==
    <<48, 49, 50, 51, 52, 53, 54, 55, 56, 57, 48, 49, 50, 51, 52, 53, 54, 55, 56, 57>>

\* Tags of length 3, 4 and 5.
TagInputs == { <<73, 68, 65>>, IDAT, <<73, 68, 65, 84, 0>> }

\* A slice of 2^32 bytes, one more than u32::max_value(). Its bytes are not
\* held: write_chunk returns before it reads them.
HugeSlice == [len |-> <<65536, 0>>, bytes |-> <<>>]

\* A slice of 2^32 - 1 bytes, the longest write_chunk takes; not held either.
MaxSlice == [len |-> <<65535, 65535>>, bytes |-> <<>>]

DataInputs ==
    { Slice(b) : b \in { <<>>, <<255>>, OnePixel, Digits20 } } \cup { HugeSlice, MaxSlice }

\* A call the model can follow: it holds the bytes of the slice, or the call
\* returns before it reads them (the argument checks fail, or the first
\* write to the sink does).
Followable(tag, data, fault) ==
    \/ data.len = Wide(Len(data.bytes))
    \/ BadTag(tag)
    \/ DataTooLong(data.len)
    \/ fault = 1

\* mtpng::Header: u32 width and height, u8 depth, the enums as their u8 codes
\* (ColorType::Truecolor = 2, ColorType::TruecolorAlpha = 6).
Header(width, height, depth, color_type) ==
    [ width |-> width, height |-> height, depth |-> depth, color_type |-> color_type,
      compression_method |-> 0, filter_method |-> 0, interlace_method |-> 0 ]

\* 1 x 258 at 8 bits truecolor; (2^31 - 1) x 1 at 16 bits truecolor with alpha.
HeaderInputs == { Header(Wide(1), Wide(258), 8, 2), Header(<<32767, 65535>>, Wide(1), 16, 6) }

NoHeader == Header(Wide(0), Wide(0), 0, 0)

\* The record the history keeps of one call: what was called with what, how it
\* returned, whether the bytes the sink held before the call are still its
\* first bytes after it, and the bytes the sink holds beyond them.
Call(op, tag, data, header, r) ==
    [ op |-> op, tag |-> tag, data |-> data, header |-> header, res |-> r.res,
      kept |-> IsPrefix(output, r.out),
      wrote |-> SubSeq(r.out, Len(output) + 1, Len(r.out)) ]

CanCall == wstate = "open" /\ Len(log) < MaxOps

Returns(op, tag, data, header, r) ==
    /\ output' = r.out
    /\ log' = Append(log, Call(op, tag, data, header, r))
    /\ UNCHANGED <<wstate, returned, cliVars>>

WriteSignature ==
    /\ CanCall
    /\ \E fault \in 0..1 :
         Returns("write_signature", <<>>, Slice(<<>>), NoHeader,
                 write_signature(output, fault))

WriteChunk ==
    /\ CanCall
    /\ \E tag \in TagInputs, data \in DataInputs, fault \in 0..4 :
         /\ Followable(tag, data, fault)
         /\ Returns("write_chunk", tag, data, NoHeader,
                    write_chunk(output, tag, data, fault))

WriteHeader ==
    /\ CanCall
    /\ \E header \in HeaderInputs, fault \in 0..4 :
         Returns("write_header", <<>>, Slice(<<>>), header,
                 write_header(output, header, fault))

WriteEnd ==
    /\ CanCall
    /\ \E fault \in 0..4 :
         Returns("write_end", <<>>, Slice(<<>>), NoHeader, write_end(output, fault))

Flush ==
    /\ CanCall
    /\ \E fault \in 0..1 :
         Returns("flush", <<>>, Slice(<<>>), NoHeader, flush(output, fault))

Close ==
    /\ wstate = "open"
    /\ \E fault \in 0..1 :
         /\ returned' = close(output, fault)
         /\ wstate' = "closed"
         /\ UNCHANGED <<output, log, cliVars>>

\* Writer::new(Vec::new()): the sink starts empty.
WriterInit ==
    /\ output = <<>>
    /\ wstate = "open"
    /\ returned = None
    /\ log = <<>>

\* No CLI process runs beside the Writer.
CliIdle ==
    /\ pc = "idle"
    /\ args = <<>>
    /\ env = <<>>
    /\ options = <<>>
    /\ rep = 0
    /\ calls = <<>>
    /\ result = <<>>
    /\ stderr = <<>>
    /\ exit = <<>>

Init == WriterInit /\ CliIdle

Next ==
    \/ WriteSignature
    \/ WriteChunk
    \/ WriteHeader
    \/ WriteEnd
    \/ Flush
    \/ Close

Spec == Init /\ [][Next]_vars

----------------------------------------------------------------------------
(* bin/mtpng.rs: the values of the command line.                           *)

\* Option<T>
Some(x) == <<x>>
IsNone(o) == o = <<>>
Opt(S) == { <<>> } \cup { <<x>> : x \in S }

\* A numeric option value is a string, held as its characters.
Chars == { "1", "+", "x" }

RECURSIVE StringsUpTo(_)
StringsUpTo(n) ==
    IF n = 0 THEN { <<>> }
    ELSE LET shorter == StringsUpTo(n - 1)
         IN  shorter \cup { Append(t, c) : t \in shorter, c \in Chars }

ChunkSizeValues == StringsUpTo(MaxStrLen)
FilterValues == { "adaptive", "none", "up", "sub", "average", "paeth", "Paeth" }
LevelValues == { "default", "1", "9", "6" }
StrategyValues == { "auto", "default", "filtered", "huffman", "rle", "fixed", "adaptive" }
StreamingValues == { "yes", "no", "true" }
ThreadsValues == { <<"1">>, <<"x">> }
RepeatValues == { <<"2">>, <<"0">>, <<"x">> }

\* How many options the command line gives.
Present(a) ==
    Len(a.chunk_size) + Len(a.filter) + Len(a.level) + Len(a.strategy)
    + Len(a.streaming) + Len(a.threads) + Len(a.repeat)

\* The ArgMatches get_matches returns; input and output are always there.
ArgMatches ==
    { a \in [ chunk_size : Opt(ChunkSizeValues), filter : Opt(FilterValues),
              level : Opt(LevelValues), strategy : Opt(StrategyValues),
              streaming : Opt(StreamingValues), threads : Opt(ThreadsValues),
              repeat : Opt(RepeatValues) ] :
        Present(a) <= MaxPresent }

----------------------------------------------------------------------------
(* str::parse::<usize>                                                     *)

DigitValue(c) ==
    CASE c = "0" -> 0 [] c = "1" -> 1 [] c = "2" -> 2 [] c = "3" -> 3 [] c = "4" -> 4
      [] c = "5" -> 5 [] c = "6" -> 6 [] c = "7" -> 7 [] c = "8" -> 8 [] c = "9" -> 9
      [] OTHER -> -1

RECURSIVE Decimal(_, _)
\* The digits accumulated left to right; -1 once a character is no digit.
Decimal(acc, digits) ==
    IF digits = <<>> THEN acc
    ELSE IF DigitValue(Head(digits)) < 0 THEN -1
    ELSE Decimal(acc * 10 + DigitValue(Head(digits)), Tail(digits))

\* s.parse::<usize>(): an empty string, a lone sign, a '-' or any character
\* that is no digit is an error; one leading '+' is allowed.
parse_usize(str) ==
    IF str = <<>> THEN [ok |-> FALSE, val |-> 0]
    ELSE IF Len(str) = 1 /\ Head(str) \in { "+", "-" } THEN [ok |-> FALSE, val |-> 0]
    ELSE LET digits == IF Head(str) = "+" THEN Tail(str) ELSE str
             n == Decimal(0, digits)
         IN  IF n < 0 THEN [ok |-> FALSE, val |-> 0] ELSE [ok |-> TRUE, val |-> n]

----------------------------------------------------------------------------
(* write_png: the option matches. An arm leaves the option alone (skip),   *)
(* calls a setter of Options (set) or returns an error (err).              *)

Skip == [kind |-> "skip"]
Set(val) == [kind |-> "set", val |-> val]
Err(msg) == [kind |-> "err", msg |-> msg]

chunk_size_arm(v) ==
    IF IsNone(v) THEN Skip
    ELSE LET n == parse_usize(v[1])
         IN  IF n.ok THEN Set(n.val) ELSE Err("Invalid chunk size")

\* Variant: a filter the match does not know selects the adaptive mode.
filter_arm_lenient(v) ==
    IF IsNone(v) THEN Skip
    ELSE IF v[1] \in { "none", "up", "sub", "average", "paeth" } THEN Set(<<"Fixed", v[1]>>)
    ELSE Set("Adaptive")

filter_arm(v) ==
    CASE IsNone(v) -> Skip
      [] v = Some("adaptive") -> Set("Adaptive")
      [] v = Some("none") -> Set(<<"Fixed", "Filter::None">>)
      [] v = Some("up") -> Set(<<"Fixed", "Filter::Up">>)
      [] v = Some("sub") -> Set(<<"Fixed", "Filter::Sub">>)
      [] v = Some("average") -> Set(<<"Fixed", "Filter::Average">>)
      [] v = Some("paeth") -> Set(<<"Fixed", "Filter::Paeth">>)
      [] OTHER -> Err("Unsupported filter type")

level_arm(v) ==
    CASE IsNone(v) -> Skip
      [] v = Some("default") -> Set("CompressionLevel::Default")
      [] v = Some("1") -> Set("CompressionLevel::Fast")
      [] v = Some("9") -> Set("CompressionLevel::High")
      [] OTHER -> Err("Unsupported compression level (try default, 1, or 9)")

strategy_arm(v) ==
    CASE IsNone(v) -> Skip
      [] v = Some("auto") -> Set("Adaptive")
      [] v = Some("default") -> Set(<<"Fixed", "Strategy::Default">>)
      [] v = Some("filtered") -> Set(<<"Fixed", "Strategy::Filtered">>)
      [] v = Some("huffman") -> Set(<<"Fixed", "Strategy::HuffmanOnly">>)
      [] v = Some("rle") -> Set(<<"Fixed", "Strategy::RLE">>)
      [] v = Some("fixed") -> Set(<<"Fixed", "Strategy::Fixed">>)
      [] OTHER -> Err("Invalid compression strategy mode")

streaming_arm(v) ==
    CASE IsNone(v) -> Skip
      [] v = Some("yes") -> Set(TRUE)
      [] v = Some("no") -> Set(FALSE)
      [] OTHER -> Err("Invalid streaming mode, try yes or no.")

\* Options::new(): no setter called yet, every field at the library's
\* default (<<>>); a setter leaves <<value>>.
Options_new ==
    [ thread_pool |-> <<>>, chunk_size |-> <<>>, filter_mode |-> <<>>,
      compression_level |-> <<>>, strategy_mode |-> <<>>, streaming |-> <<>> ]

\* The setters of Options, in the order write_png reaches them.
Setters ==
    << "thread_pool", "chunk_size", "filter_mode", "compression_level",
       "strategy_mode", "streaming" >>

\* The arm write_png takes for each setter; set_thread_pool is always called.
ArmOf(a, setter) ==
    CASE setter = "thread_pool" -> Set("pool")
      [] setter = "chunk_size" -> chunk_size_arm(a.chunk_size)
      [] setter = "filter_mode" -> filter_arm(a.filter)
      [] setter = "compression_level" -> level_arm(a.level)
      [] setter = "strategy_mode" -> strategy_arm(a.strategy)
      [] setter = "streaming" -> streaming_arm(a.streaming)

RECURSIVE Configure(_, _, _, _)
\* Lines 83-131 of write_png from its k-th match on: the first arm that is an
\* error, or whose setter returns an error (`refused` names the setter that
\* does, if any is to), ends write_png; the options set before it stay set.
Configure(a, opts, k, refused) ==
    IF k > Len(Setters) THEN [res |-> "Ok", options |-> opts]
    ELSE LET arm == ArmOf(a, Setters[k])
         IN  CASE arm.kind = "skip" -> Configure(a, opts, k + 1, refused)
               [] arm.kind = "err" -> [res |-> arm.msg, options |-> opts]
               [] arm.kind = "set" ->
                    IF refused = Setters[k]
                    THEN [res |-> "setter error", options |-> opts]
                    ELSE Configure(a, [opts EXCEPT ![Setters[k]] = Some(arm.val)],
                                   k + 1, refused)

----------------------------------------------------------------------------
(* bin/mtpng.rs: main, doit and write_png as one sequential process.       *)

Ok == <<"Ok">>
Error(msg) == <<"Err", msg>>

\* `call?` inside write_png, itself called as write_png(..)? by doit: an
\* error makes write_png and then doit return it, to the match of main.
Try(res, next) ==
    IF res = "Ok" THEN [pc |-> next, result |-> <<>>]
    ELSE [pc |-> "main_match", result |-> Error(res)]

\* Variant: the result of an encoder call is dropped.
TryCall_Unchecked(res, next) == [pc |-> next, result |-> <<>>]

\* `encoder.call(..)?`, lines 136-146.
TryCall(res, next) == Try(res, next)

\* The process moves on, or doit returns an error.
Goes(t) ==
    /\ pc' = t.pc
    /\ result' = t.result

\* doit returns Err(msg).
Fails(msg) == Goes([pc |-> "main_match", result |-> Error(msg)])

\* An encoder call is made and returns.
Called(op, res) == calls' = Append(calls, [op |-> op, res |-> res])

\* The outcomes of a call into the library or the system.
Outcomes == { "Ok", "library error" }

\* doit, lines 152-157.
Doit_Threads ==
    /\ pc = "doit_threads"
    /\ LET n == IF IsNone(args.threads) THEN [ok |-> TRUE, val |-> 0]
                ELSE parse_usize(args.threads[1])
       IN  IF n.ok
           THEN /\ env' = [env EXCEPT !.threads = n.val]
                /\ Goes([pc |-> "doit_pool", result |-> <<>>])
           ELSE /\ Fails("invalid threads")
                /\ UNCHANGED env
    /\ UNCHANGED <<args, options, rep, calls, stderr, exit, writerVars>>

\* doit, lines 159-162: the pool is built, or the builder fails.
Doit_Pool ==
    /\ pc = "doit_pool"
    /\ \E built \in Outcomes :
         IF built = "Ok"
         THEN /\ stderr' = Append(stderr, "Using threads")
              /\ Goes([pc |-> "doit_repeat", result |-> <<>>])
         ELSE /\ Fails(built)
              /\ UNCHANGED stderr
    /\ UNCHANGED <<args, env, options, rep, calls, exit, writerVars>>

\* doit, lines 164-169.
Doit_Repeat ==
    /\ pc = "doit_repeat"
    /\ LET n == IF IsNone(args.repeat) THEN [ok |-> TRUE, val |-> 1]
                ELSE parse_usize(args.repeat[1])
       IN  IF n.ok
           THEN /\ env' = [env EXCEPT !.reps = n.val]
                /\ Goes([pc |-> "doit_read", result |-> <<>>])
           ELSE /\ Fails("invalid repeat")
                /\ UNCHANGED env
    /\ UNCHANGED <<args, options, rep, calls, stderr, exit, writerVars>>

\* doit, lines 172-176: read_png fails, or gives an image with or without a
\* palette and transparency.
Doit_Read ==
    /\ pc = "doit_read"
    /\ \/ \E palette \in BOOLEAN, transparency \in BOOLEAN :
            /\ env' = [env EXCEPT !.palette = palette, !.transparency = transparency]
            /\ Goes([pc |-> "doit_loop", result |-> <<>>])
       \/ /\ Fails("library error")
          /\ UNCHANGED env
    /\ UNCHANGED <<args, options, rep, calls, stderr, exit, writerVars>>

\* doit, lines 178-186: the next iteration calls write_png; after the last,
\* doit returns Ok(()).
Doit_Loop ==
    /\ pc = "doit_loop"
    /\ IF rep < env.reps
       THEN /\ Goes([pc |-> "wp_create", result |-> <<>>])
            /\ calls' = <<>>
            /\ options' = <<>>
       ELSE /\ Goes([pc |-> "main_match", result |-> Ok])
            /\ UNCHANGED <<calls, options>>
    /\ UNCHANGED <<args, env, rep, stderr, exit, writerVars>>

\* write_png, lines 82-83: File::create(filename)?, Options::new().
WP_Create ==
    /\ pc = "wp_create"
    /\ \E created \in Outcomes :
         /\ Goes(Try(created, "wp_options"))
         /\ options' = IF created = "Ok" THEN Options_new ELSE options
    /\ UNCHANGED <<args, env, rep, calls, stderr, exit, writerVars>>

\* write_png, lines 86-131.
WP_Options ==
    /\ pc = "wp_options"
    /\ \E refused \in { Setters[k] : k \in 1..Len(Setters) } \cup { "none" } :
         LET c == Configure(args, options, 1, refused)
         IN  /\ options' = c.options
             /\ Goes(Try(c.res, "wp_new"))
    /\ UNCHANGED <<args, env, rep, calls, stderr, exit, writerVars>>

\* write_png, line 133: Encoder::new(writer, &options).
WP_New ==
    /\ pc = "wp_new"
    /\ Called("new", "Ok")
    /\ Goes([pc |-> "wp_header", result |-> <<>>])
    /\ UNCHANGED <<args, env, options, rep, stderr, exit, writerVars>>

\* write_png, line 136.
WP_Header ==
    /\ pc = "wp_header"
    /\ \E res \in Outcomes :
         /\ Called("write_header", res)
         /\ Goes(TryCall(res, "wp_palette"))
    /\ UNCHANGED <<args, env, options, rep, stderr, exit, writerVars>>

\* write_png, lines 137-140.
WP_Palette ==
    /\ pc = "wp_palette"
    /\ IF env.palette
       THEN \E res \in Outcomes :
              /\ Called("write_palette", res)
              /\ Goes(TryCall(res, "wp_transparency"))
       ELSE /\ Goes([pc |-> "wp_transparency", result |-> <<>>])
            /\ UNCHANGED calls
    /\ UNCHANGED <<args, env, options, rep, stderr, exit, writerVars>>

\* write_png, lines 141-144.
WP_Transparency ==
    /\ pc = "wp_transparency"
    /\ IF env.transparency
       THEN \E res \in Outcomes :
              /\ Called("write_transparency", res)
              /\ Goes(TryCall(res, "wp_rows"))
       ELSE /\ Goes([pc |-> "wp_rows", result |-> <<>>])
            /\ UNCHANGED calls
    /\ UNCHANGED <<args, env, options, rep, stderr, exit, writerVars>>

\* write_png, line 145.
WP_Rows ==
    /\ pc = "wp_rows"
    /\ \E res \in Outcomes :
         /\ Called("write_image_rows", res)
         /\ Goes(TryCall(res, "wp_finish"))
    /\ UNCHANGED <<args, env, options, rep, stderr, exit, writerVars>>

\* write_png, lines 146-148, and doit, lines 181-183: finish()?, Ok(()), and
\* the iteration of doit that called write_png ends.
WP_Finish ==
    /\ pc = "wp_finish"
    /\ \E res \in Outcomes :
         /\ Called("finish", res)
         /\ Goes(TryCall(res, "doit_loop"))
         /\ rep' = IF res = "Ok" THEN rep + 1 ELSE rep
    /\ UNCHANGED <<args, env, options, stderr, exit, writerVars>>

\* main, lines 233-237: the match on what doit returned, then main returns
\* and the process ends with the status of a main that returned.
Main_Match ==
    /\ pc = "main_match"
    /\ stderr' = IF result = Ok THEN stderr ELSE Append(stderr, "Error: " \o result[2])
    /\ exit' = Some(0)
    /\ pc' = "exited"
    /\ UNCHANGED <<args, env, options, rep, calls, result, writerVars>>

\* main has the ArgMatches and calls doit; no Writer is driven.
CliInit ==
    /\ output = <<>>
    /\ wstate = "open"
    /\ returned = None
    /\ log = <<>>
    /\ pc = "doit_threads"
    /\ args \in ArgMatches
    /\ env = [threads |-> 0, reps |-> 0, palette |-> FALSE, transparency |-> FALSE]
    /\ options = <<>>
    /\ rep = 0
    /\ calls = <<>>
    /\ result = <<>>
    /\ stderr = <<>>
    /\ exit = <<>>

CliNext ==
    \/ Doit_Threads
    \/ Doit_Pool
    \/ Doit_Repeat
    \/ Doit_Read
    \/ Doit_Loop
    \/ WP_Create
    \/ WP_Options
    \/ WP_New
    \/ WP_Header
    \/ WP_Palette
    \/ WP_Transparency
    \/ WP_Rows
    \/ WP_Finish
    \/ Main_Match

CliSpec == CliInit /\ [][CliNext]_vars

----------------------------------------------------------------------------
(* Reference definitions for the properties: big-endian encoding of a      *)
(* natural, and the CRC-32 of the PNG specification computed bit by bit    *)
(* (reflected, polynomial 0xEDB88320, register preset to all ones, result  *)
(* complemented). Registers are sequences of 32 bits, least significant    *)
(* bit first.                                                              *)

RefBE32(n) == << n \div 16777216, (n \div 65536) % 256, (n \div 256) % 256, n % 256 >>

BitsOf(b) == [k \in 1..8 |-> (b \div (2 ^ (k - 1))) % 2]

RefPoly == BitsOf(32) \o BitsOf(131) \o BitsOf(184) \o BitsOf(237)

RefBitStep(reg, bit) ==
    LET fb == (reg[1] + bit) % 2
        shifted == Tail(reg) \o <<0>>
    IN  IF fb = 1 THEN [k \in 1..32 |-> (shifted[k] + RefPoly[k]) % 2] ELSE shifted

RECURSIVE RefByteStep(_, _, _)
RefByteStep(reg, bits, k) ==
    IF k > 8 THEN reg
    ELSE LET next == RefBitStep(reg, bits[k])
         IN  IF next[1] \in {0, 1} THEN RefByteStep(next, bits, k + 1) ELSE reg

RECURSIVE RefCrcLoop(_, _)
RefCrcLoop(reg, msg) ==
    IF msg = <<>> THEN reg
    ELSE LET next == RefByteStep(reg, BitsOf(Head(msg)), 1)
         IN  IF next[1] \in {0, 1} THEN RefCrcLoop(next, Tail(msg)) ELSE reg

RefByteAt(reg, j) ==
    LET b(k) == reg[8 * j + k] * (2 ^ (k - 1))
    IN  b(1) + b(2) + b(3) + b(4) + b(5) + b(6) + b(7) + b(8)

\* The CRC-32 of msg as 4 bytes, most significant first.
RefCrc32(msg) ==
    LET reg == RefCrcLoop([k \in 1..32 |-> 1], msg)
        out == [k \in 1..32 |-> 1 - reg[k]]
    IN  << RefByteAt(out, 3), RefByteAt(out, 2), RefByteAt(out, 1), RefByteAt(out, 0) >>

\* The messages whose CRC the properties ask for, computed once.
RefMessages ==
    { tag \o d.bytes : tag \in { t \in TagInputs : Len(t) = 4 } \cup {IEND},
                       d \in DataInputs }

RefCrcTable == [m \in RefMessages |-> RefCrc32(m)]

RefCrcOf(msg) == IF msg \in RefMessages THEN RefCrcTable[msg] ELSE RefCrc32(msg)

\* The calls of one method recorded so far.
CallsOf(op) == { i \in 1..Len(log) : log[i].op = op }

OkCallsOf(op) == { i \in CallsOf(op) : log[i].res = "Ok" }

\* The slice is longer than 2^32 - 1 bytes.
Over4GiB(data) == data.len[1] >= 65536

\* The chunk a tag and data bytes frame into.
RefChunk(tag, bytes) == RefBE32(Len(bytes)) \o tag \o bytes \o RefCrcOf(tag \o bytes)

LastFour(s) == SubSeq(s, Len(s) - 3, Len(s))

----------------------------------------------------------------------------
(* Properties of the Writer (specification Spec).                          *)

\* C1: a successful write_chunk(tag, data) had a 4-byte tag and n <= 2^32-1
\* data bytes and appended exactly 12+n bytes: n big-endian, the tag, the
\* data unchanged, a 4-byte checksum; empty data gives 12 bytes starting
\* 00 00 00 00 tag, 20 data bytes give 32 bytes.
C1_ChunkFraming ==
    \A i \in OkCallsOf("write_chunk") :
        LET e == log[i]
            n == Len(e.data.bytes)
        IN  /\ Len(e.tag) = 4
            /\ ~Over4GiB(e.data)
            /\ e.kept
            /\ Len(e.wrote) = 12 + n
            /\ SubSeq(e.wrote, 1, 4) = RefBE32(n)
            /\ SubSeq(e.wrote, 5, 8) = e.tag
            /\ SubSeq(e.wrote, 9, 8 + n) = e.data.bytes
            /\ e.wrote = RefChunk(e.tag, e.data.bytes)
            /\ (n = 0 => e.wrote = <<0, 0, 0, 0>> \o e.tag \o LastFour(e.wrote))
            /\ (n = 20 => Len(e.wrote) = 32)

C1_Witness ==
    /\ \E i \in OkCallsOf("write_chunk") :
         log[i].data.bytes = Digits20 /\ Len(log[i].wrote) = 32
    /\ \E i \in OkCallsOf("write_chunk") :
         log[i].data.bytes = <<>> /\ Len(log[i].wrote) = 12

\* C2: the 4 trailing bytes of a chunk are the big-endian CRC-32 of tag
\* followed by data and of nothing else; feeding the digest the tag and then
\* the data gives what one pass over tag followed by data gives; for IDAT
\* with the one_pixel data they are A3 0A 15 E3.
C2_ChunkCrc ==
    \A i \in OkCallsOf("write_chunk") :
        LET e == log[i]
            msg == e.tag \o e.data.bytes
        IN  /\ LastFour(e.wrote) = RefCrcOf(msg)
            /\ LastFour(e.wrote) = be32_bytes(Digest_sum32(Digest_write(Digest_new, msg)))
            /\ (e.tag = IDAT /\ e.data.bytes = OnePixel
                  => LastFour(e.wrote) = <<163, 10, 21, 227>>)

C2_Witness ==
    \E i \in OkCallsOf("write_chunk") :
        /\ log[i].tag = IDAT
        /\ log[i].data.bytes = OnePixel
        /\ LastFour(log[i].wrote) = <<163, 10, 21, 227>>

\* C3: write_chunk fails with InvalidInput exactly when the tag is not 4
\* bytes long or the data is longer than 2^32-1 bytes, and such a call leaves
\* the sink as it was.
C3_Validation ==
    \A i \in CallsOf("write_chunk") :
        LET e == log[i]
            invalid == Len(e.tag) # 4 \/ Over4GiB(e.data)
        IN  /\ invalid <=> e.res = "InvalidInput"
            /\ invalid => e.kept /\ e.wrote = <<>>

C3_Witness ==
    /\ output # <<>>
    /\ Len(log) = 2
    /\ log[1].wrote # <<>>
    /\ log[2].op = "write_chunk"
    /\ log[2].res = "InvalidInput"
    /\ Len(log[2].tag) = 4
    /\ Over4GiB(log[2].data)

\* The calls of write_signature that put a signature into the sink.
SignaturesWritten == { i \in CallsOf("write_signature") : log[i].wrote # <<>> }

\* C4 as claimed: over any sequence of Writer operations the signature is in
\* the output at most once, and before any chunk byte.
C4_SignatureOnceAndFirst ==
    /\ Cardinality(SignaturesWritten) <= 1
    /\ \A i \in SignaturesWritten : \A j \in 1..(i - 1) : log[j].wrote = <<>>

\* C4 as amended: every successful write_signature appends exactly the 8
\* bytes 89 50 4E 47 0D 0A 1A 0A, whatever the sink already holds.
C4_SignaturePerCall ==
    \A i \in OkCallsOf("write_signature") :
        /\ log[i].kept
        /\ log[i].wrote = <<137, 80, 78, 71, 13, 10, 26, 10>>

C4_Witness ==
    \E i \in OkCallsOf("write_signature") :
        /\ \E j \in 1..(i - 1) : log[j].wrote # <<>>
        /\ Len(output) >= 16
        /\ LastFour(output) = <<13, 10, 26, 10>>

\* The 13 data bytes of an IHDR chunk: width, height, bit depth, color type,
\* compression method, filter method, interlace method.
RefHeaderData(h) ==
    << h.width[1] \div 256, h.width[1] % 256, h.width[2] \div 256, h.width[2] % 256,
       h.height[1] \div 256, h.height[1] % 256, h.height[2] \div 256, h.height[2] % 256,
       h.depth, h.color_type, h.compression_method, h.filter_method,
       h.interlace_method >>

\* C5: a successful write_header appends one IHDR chunk of 25 bytes whose
\* length field is 13 and whose data are the 7 header fields in order.
C5_HeaderChunk ==
    \A i \in OkCallsOf("write_header") :
        LET e == log[i]
        IN  /\ Len(e.wrote) = 25
            /\ SubSeq(e.wrote, 1, 4) = <<0, 0, 0, 13>>
            /\ SubSeq(e.wrote, 5, 8) = IHDR
            /\ SubSeq(e.wrote, 9, 21) = RefHeaderData(e.header)
            /\ LastFour(e.wrote) = RefCrcOf(IHDR \o RefHeaderData(e.header))

\* C6: write_end never fails validation, and a successful one appends the 12
\* bytes 00 00 00 00 'I' 'E' 'N' 'D' and the CRC-32 of the tag alone, which is
\* what write_chunk("IEND", empty) appends.
C6_EndChunk ==
    \A i \in CallsOf("write_end") :
        LET e == log[i]
        IN  /\ e.res # "InvalidInput"
            /\ e.res = "Ok" =>
                 /\ e.kept
                 /\ Len(e.wrote) = 12
                 /\ e.wrote = <<0, 0, 0, 0, 73, 69, 78, 68>> \o RefCrcOf(<<73, 69, 78, 68>>)
                 /\ e.wrote = write_chunk(<<>>, <<73, 69, 78, 68>>, Slice(<<>>), 0).out

C6_Witness ==
    \E i \in OkCallsOf("write_end") :
        /\ log[i].wrote = <<0, 0, 0, 0, 73, 69, 78, 68, 174, 66, 96, 130>>
        /\ \E j \in 1..(i - 1) : log[j].wrote # <<>>

\* C10: every call only appends (the bytes the sink held stay its first
\* bytes), flush appends nothing, and the sink a successful close returns
\* holds exactly the bytes the calls appended, in call order: empty when no
\* call wrote.
C10_CloseReturnsSink ==
    /\ \A i \in 1..Len(log) : log[i].kept
    /\ \A i \in CallsOf("flush") : log[i].wrote = <<>>
    /\ output = Flatten([i \in 1..Len(log) |-> log[i].wrote])
    /\ (wstate = "closed" /\ returned.ok) =>
         /\ returned.sink = Flatten([i \in 1..Len(log) |-> log[i].wrote])
         /\ ((\A i \in 1..Len(log) : log[i].op = "flush") => returned.sink = <<>>)

C10_Witness ==
    /\ wstate = "closed"
    /\ returned.ok
    /\ Len(log) = 2
    /\ \A i \in 1..Len(log) : log[i].res = "Ok" /\ log[i].wrote # <<>>
    /\ Len(returned.sink) = Len(log[1].wrote) + Len(log[2].wrote)

----------------------------------------------------------------------------
(* Properties of the command line driver (specification CliSpec).          *)

\* C7: the process exits with status 0 when doit returned Ok, and with a
\* non-zero status after an error line on stderr when doit returned an error.
C7_ExitStatus ==
    exit # <<>> =>
        IF result = Ok THEN exit = <<0>>
        ELSE /\ exit[1] # 0
             /\ stderr # <<>>
             /\ stderr[Len(stderr)] = "Error: " \o result[2]

\* The encoder calls a write_png makes when no call fails, for the image read.
RefCallOrder ==
    <<"new", "write_header">>
    \o (IF env.palette THEN <<"write_palette">> ELSE <<>>)
    \o (IF env.transparency THEN <<"write_transparency">> ELSE <<>>)
    \o <<"write_image_rows", "finish">>

\* C8: in every write_png the encoder calls are a beginning of: write_header,
\* write_palette if the image has a palette, write_transparency if it has
\* transparency, write_image_rows, finish, each once; only the last call made
\* can have failed, and then write_png has returned its error; a write_png
\* that returned Ok made all of them.
C8_EncoderCallOrder ==
    LET n == Len(calls)
    IN  /\ IsPrefix([i \in 1..n |-> calls[i].op], RefCallOrder)
        /\ \A i \in 1..(n - 1) : calls[i].res = "Ok"
        /\ (n > 0 /\ calls[n].res # "Ok") =>
             /\ pc \in { "main_match", "exited" }
             /\ result = <<"Err", calls[n].res>>
        /\ (rep > 0 /\ pc \in { "doit_loop", "main_match", "exited" } /\ result \in { <<>>, Ok })
             => n = Len(RefCallOrder) /\ calls[n].res = "Ok"

C8_Witness ==
    /\ pc = "exited"
    /\ result = Ok
    /\ rep = 2
    /\ env.palette /\ env.transparency
    /\ [i \in 1..Len(calls) |-> calls[i].op]
         = <<"new", "write_header", "write_palette", "write_transparency",
             "write_image_rows", "finish">>

\* An unsigned decimal integer: digits, after at most one '+'.
RefUnsigned(str) ==
    LET digits == IF str # <<>> /\ Head(str) = "+" THEN Tail(str) ELSE str
    IN  /\ digits # <<>>
        /\ \A i \in 1..Len(digits) :
             digits[i] \in { "0", "1", "2", "3", "4", "5", "6", "7", "8", "9" }

\* An option of the command line has a value outside the documented ones.
RefBadOption(a) ==
    \/ a.chunk_size # <<>> /\ ~RefUnsigned(a.chunk_size[1])
    \/ a.filter # <<>>
         /\ a.filter[1] \notin { "none", "sub", "up", "average", "paeth", "adaptive" }
    \/ a.level # <<>> /\ a.level[1] \notin { "1", "default", "9" }
    \/ a.strategy # <<>>
         /\ a.strategy[1] \notin { "auto", "default", "filtered", "huffman", "rle", "fixed" }
    \/ a.streaming # <<>> /\ a.streaming[1] \notin { "yes", "no" }

\* The errors the matches of write_png return themselves.
RefRejections ==
    { <<"Err", "Invalid chunk size">>,
      <<"Err", "Unsupported filter type">>,
      <<"Err", "Unsupported compression level (try default, 1, or 9)">>,
      <<"Err", "Invalid compression strategy mode">>,
      <<"Err", "Invalid streaming mode, try yes or no.">> }

====
